---- MODULE Spec2Model ----
(***************************************************************************)
(* Model of the Surface fan drivers:                                       *)
(*   drivers/platform/surface/surface_fan.c  (platform driver: thermal     *)
(*       cooling device + hwmon device on top of the SSAM controller)      *)
(*   drivers/hwmon/surface_fan.c             (SSAM client hwmon driver)    *)
(*                                                                         *)
(* The driver core, the thermal core, the hwmon core and the SSAM          *)
(* transport are the environment: their results are drawn from small sets. *)
(* A callback that performs a synchronous SSAM request is modelled by two  *)
(* steps, the submission of the request (the calling thread then blocks)   *)
(* and its completion, so that concurrent callers interleave.              *)
(***************************************************************************)
EXTENDS Integers, Sequences, FiniteSets, TLC

\* ---- errno values (returned negated) ----
ENODEV == 19
ENOMEM == 12
EIO == 5
ETIMEDOUT == 110
EPROBE_DEFER == 517

\* ---- constants of the drivers ----
CLAMP_HI == 65536              \* (1lu << 16)
FAN_MAX_STATE == 7200          \* get_max_state / hwmon_fan_max, platform driver
FAN_MIN == 2000                \* hwmon_fan_min, platform driver
SURFACE_FAN_MIN_SPEED == 3000
SURFACE_FAN_MAX_SPEED == 7500

\* ---- bounds of the model ----
MaxProbes == 2                 \* bind attempts of the platform driver

\* the threads calling into the adapters: the thermal core drives the cooling
\* device, a sysfs reader drives the hwmon devices; they run concurrently
CoolingThreads == {"thermal"}
HwmonThreads == {"sysfs"}
Threads == CoolingThreads \cup HwmonThreads

\* cooling states handed to set_cur_state (unsigned long)
StateValues == {0, 255, 256, 2000, 7201, 65535, 65536, 70000}
\* speeds the embedded controller reports (16 bit)
RpmValues == {4500, 65535}
\* values handed to the hwmon write entry point
WriteValues == {0, 1000}
\* failures of one SSAM request
TransportErrors == {-ETIMEDOUT, -EIO}
\* failures of thermal_cooling_device_register / hwmon registration / client bind
RegErrors == {-ENODEV, -ENOMEM}

\* (type, attr) pairs the hwmon core can hand to the read/write entry points
HwmonCalls == { << "hwmon_fan", "hwmon_fan_input" >>, << "hwmon_fan", "hwmon_fan_label" >>,
                << "hwmon_fan", "hwmon_fan_min" >>, << "hwmon_fan", "hwmon_fan_max" >>,
                << "hwmon_temp", "hwmon_temp_input" >> }

\* ---- pure helpers ----

\* clamp(val, lo, hi) of linux/minmax.h as used by the driver
clamp(val, lo, hi) == IF val < lo THEN lo ELSE IF val > hi THEN hi ELSE val

\* cpu_to_le16: truncation to u16, then the two bytes, low byte first
cpu_to_le16(x) == << (x % 65536) % 256, (x % 65536) \div 256 >>

\* le16_to_cpu: the two wire bytes back to a native value
le16_to_cpu(b) == b[1] + 256 * b[2]

\* faulty variant of SetValue: the state clamped to the advisory maximum
SetValueAdvisory(state) == cpu_to_le16(clamp(state, 0, FAN_MAX_STATE))

\* the __le16 value surface_fan_set_cur_state hands to __ssam_fan_set
SetValue(state) == cpu_to_le16(clamp(state, 0, CLAMP_HI))

\* faulty variant of ProbeErr: the error is passed through unchanged
ProbeErrPassThrough(err) == err

\* PTR_ERR(x) == -ENODEV ? -EPROBE_DEFER : PTR_ERR(x)
ProbeErr(err) == IF err = -ENODEV THEN -EPROBE_DEFER ELSE err

\* how the driver core classifies the return value of a bind attempt
Outcome(r) == IF r = 0 THEN "Bound"
              ELSE IF r = -EPROBE_DEFER THEN "Deferred" ELSE "Failed"

VARIABLES
    pc,          \* position of the driver core in probe/remove of the platform device
    lifecycle,   \* Unbound, Probing, Bound, Deferred, Failed, Removed
    nprobes,     \* bind attempts made so far
    trace,       \* results of the calls made by the bind attempt in progress or just
                 \* returned, in order (forgotten once the attempt is cleaned up)
    ret,         \* return value of the last finished bind attempt
    ctrl,        \* probe local: struct ssam_controller *ctrl
    data,        \* probe local: struct fan_data *data (index into heap, 0 = NULL)
    heap,        \* the fan_data objects allocated so far
    cdevs,       \* registered thermal cooling devices (named by their devdata)
    hdevs,       \* registered hwmon devices of the platform driver (by drvdata)
    drvdata,     \* platform_get_drvdata(pdev) (0 = NULL)
    sdev,        \* the SSAM client device of the hwmon driver
    th,          \* the calling threads
    last         \* the adapter call that returned in the latest step (NoCall: none did)

vars == << pc, lifecycle, nprobes, trace, ret, ctrl, data, heap, cdevs, hdevs,
           drvdata, sdev, th, last >>

drv == << pc, lifecycle, nprobes, trace, ret, ctrl, data, heap, cdevs, hdevs, drvdata >>

IdleThread == [pc |-> "idle", drv |-> "-", op |-> "-", arg |-> 0,
               ctrl |-> "-", sent |-> << >>, afterRemove |-> FALSE]

NoCall == [drv |-> "-", op |-> "-", type |-> "-", attr |-> "-", arg |-> 0,
           ctrl |-> "-", nreq |-> 0, sent |-> << >>, resp |-> << >>, res |-> 0, ret |-> 0,
           written |-> FALSE, val |-> 0, afterRemove |-> FALSE]

Init ==
    /\ pc = "idle"
    /\ lifecycle = "Unbound"
    /\ nprobes = 0
    /\ trace = << >>
    /\ ret = 0
    /\ ctrl = "NULL"
    /\ data = 0
    /\ heap = << >>
    /\ cdevs = {}
    /\ hdevs = {}
    /\ drvdata = 0
    /\ sdev = [hdev |-> FALSE, drvdata |-> FALSE]
    /\ th = [t \in Threads |-> IdleThread]
    /\ last = NoCall

\* ---- surface_fan_probe of the platform driver, statement by statement ----

\* a bind attempt returns r: the driver core records the outcome and the
\* locals of surface_fan_probe are gone; on failure the driver core goes on
\* to release the device's managed resources
ProbeReturn(r) ==
    /\ ret' = r
    /\ lifecycle' = Outcome(r)
    /\ pc' = IF r = 0 THEN "idle" ELSE "devres"
    /\ ctrl' = "NULL"
    /\ data' = 0

\* the probe goes on to its next statement
ProbeGoto(next) ==
    /\ pc' = next
    /\ UNCHANGED << ret, lifecycle >>

\* the driver core calls surface_fan_probe
ProbeEnter ==
    /\ pc = "idle"
    /\ lifecycle \in {"Unbound", "Deferred", "Failed", "Removed"}
    /\ nprobes < MaxProbes
    /\ nprobes' = nprobes + 1
    /\ lifecycle' = "Probing"
    /\ pc' = "bind"
    /\ trace' = << >>
    /\ UNCHANGED << ret, ctrl, data, heap, cdevs, hdevs, drvdata, sdev, th >>
    /\ last' = NoCall

\* ctrl = ssam_client_bind(&pdev->dev);
\* if (IS_ERR(ctrl)) return PTR_ERR(ctrl) == -ENODEV ? -EPROBE_DEFER : PTR_ERR(ctrl);
ProbeBind ==
    /\ pc = "bind"
    /\ \E r \in {0} \cup RegErrors :
        /\ trace' = Append(trace, r)
        /\ IF r = 0
           THEN /\ ctrl' = "ctrl"
                /\ ProbeGoto("fan_get")
                /\ UNCHANGED data
           ELSE ProbeReturn(ProbeErr(r))
    /\ UNCHANGED << nprobes, heap, cdevs, hdevs, drvdata, sdev, th >>
    /\ last' = NoCall

\* status = __ssam_fan_get(ctrl, &value); if (status) return -ENODEV;
ProbeFanGet ==
    /\ pc = "fan_get"
    /\ \E status \in {0} \cup TransportErrors :
        /\ trace' = Append(trace, status)
        /\ IF status # 0
           THEN ProbeReturn(-ENODEV)
           ELSE /\ ProbeGoto("kzalloc")
                /\ UNCHANGED << ctrl, data >>
    /\ UNCHANGED << nprobes, heap, cdevs, hdevs, drvdata, sdev, th >>
    /\ last' = NoCall

\* data = devm_kzalloc(&pdev->dev, sizeof(*data), GFP_KERNEL); if (!data) return -ENOMEM;
ProbeAlloc ==
    /\ pc = "kzalloc"
    /\ \E ok \in BOOLEAN :
        IF ok
        THEN /\ trace' = Append(trace, 0)
             /\ heap' = Append(heap, [ctrl |-> "NULL", cdev |-> 0, hdev |-> 0,
                                      freed |-> FALSE])
             /\ data' = Len(heap) + 1
             /\ ProbeGoto("cdev_register")
             /\ UNCHANGED ctrl
        ELSE /\ trace' = Append(trace, -ENOMEM)
             /\ ProbeReturn(-ENOMEM)
             /\ UNCHANGED heap
    /\ UNCHANGED << nprobes, cdevs, hdevs, drvdata, sdev, th >>
    /\ last' = NoCall

\* cdev = thermal_cooling_device_register("Fan", data, &surface_fan_cooling_ops);
\* if (IS_ERR(cdev)) return PTR_ERR(cdev) == -ENODEV ? -EPROBE_DEFER : PTR_ERR(cdev);
ProbeCdevRegister ==
    /\ pc = "cdev_register"
    /\ \E r \in {0} \cup RegErrors :
        /\ trace' = Append(trace, r)
        /\ IF r = 0
           THEN /\ cdevs' = cdevs \cup {data}
                /\ ProbeGoto("hwmon_register")
                /\ UNCHANGED << ctrl, data >>
           ELSE /\ ProbeReturn(ProbeErr(r))
                /\ UNCHANGED cdevs
    /\ UNCHANGED << nprobes, heap, hdevs, drvdata, sdev, th >>
    /\ last' = NoCall

\* hdev = devm_hwmon_device_register_with_info(&pdev->dev, "fan", data, ...);
\* if (IS_ERR(hdev)) return PTR_ERR(hdev) == -ENODEV ? -EPROBE_DEFER : PTR_ERR(hdev);
ProbeHwmonRegister ==
    /\ pc = "hwmon_register"
    /\ \E r \in {0} \cup RegErrors :
        /\ trace' = Append(trace, r)
        /\ IF r = 0
           THEN /\ hdevs' = hdevs \cup {data}
                /\ ProbeGoto("assign")
                /\ UNCHANGED << ctrl, data >>
           ELSE /\ ProbeReturn(ProbeErr(r))
                /\ UNCHANGED hdevs
    /\ UNCHANGED << nprobes, heap, cdevs, drvdata, sdev, th >>
    /\ last' = NoCall

\* data->ctrl = ctrl; data->cdev = cdev; data->hdev = hdev;
\* platform_set_drvdata(pdev, data); return 0;
ProbeAssign ==
    /\ pc = "assign"
    /\ heap' = [heap EXCEPT ![data] = [@ EXCEPT !.ctrl = ctrl, !.cdev = data,
                                                !.hdev = data]]
    /\ drvdata' = data
    /\ ProbeReturn(0)
    /\ UNCHANGED << nprobes, trace, cdevs, hdevs, sdev, th >>
    /\ last' = NoCall

\* surface_fan_remove: thermal_cooling_device_unregister(d->cdev); return 0;
surface_fan_remove ==
    /\ pc = "idle"
    /\ lifecycle = "Bound"
    /\ cdevs' = cdevs \ {heap[drvdata].cdev}
    /\ lifecycle' = "Removed"
    /\ pc' = "devres"
    /\ UNCHANGED << nprobes, trace, ret, ctrl, data, heap, hdevs, drvdata, sdev, th >>
    /\ last' = NoCall

\* after a failed probe or after remove, the driver core releases what the
\* device holds through devm_*: the hwmon device and the fan_data allocation
DevresRelease ==
    /\ pc = "devres"
    /\ hdevs' = {}
    /\ heap' = [i \in 1..Len(heap) |-> [heap[i] EXCEPT !.freed = TRUE]]
    /\ drvdata' = 0
    /\ pc' = "idle"
    /\ trace' = << >>
    /\ UNCHANGED << lifecycle, nprobes, ret, ctrl, data, cdevs, sdev, th >>
    /\ last' = NoCall

\* ---- the adapters' callbacks ----

\* the values a read of d->ctrl can yield: the field, or, once the fan_data
\* has been freed, either the stale field or whatever the memory holds by then
ReadCtrl(d) == IF heap[d].freed THEN {heap[d].ctrl, "wild"} ELSE {heap[d].ctrl}

\* a thread blocked in a synchronous SSAM request
Waiting(d, o, a, c, s) ==
    [pc |-> "wait", drv |-> d, op |-> o, arg |-> a, ctrl |-> c, sent |-> s,
     afterRemove |-> (lifecycle = "Removed")]

\* a callback that returned without a request
Local(d, o, ty, at, a, r, w, v) ==
    [drv |-> d, op |-> o, type |-> ty, attr |-> at, arg |-> a, ctrl |-> "-", nreq |-> 0,
     sent |-> << >>, resp |-> << >>, res |-> 0, ret |-> r, written |-> w,
     val |-> v, afterRemove |-> (lifecycle = "Removed")]

\* a callback that returned after its request completed
Remote(t, ty, at, rsp, rs, r, w, v) ==
    [drv |-> th[t].drv, op |-> th[t].op, type |-> ty, attr |-> at,
     arg |-> th[t].arg, ctrl |-> th[t].ctrl, nreq |-> 1, sent |-> th[t].sent, resp |-> rsp,
     res |-> rs, ret |-> r, written |-> w, val |-> v,
     afterRemove |-> th[t].afterRemove]

\* surface_fan_set_cur_state: encode the state and submit __ssam_fan_set
surface_fan_set_cur_state(t) ==
    /\ th[t].pc = "idle"
    /\ \E d \in cdevs, state \in StateValues :
        \E c \in ReadCtrl(d) :
            th' = [th EXCEPT ![t] =
                     Waiting("platform", "set_cur_state", state, c, SetValue(state))]
    /\ UNCHANGED << drv, sdev >>
    /\ last' = NoCall

\* ... return __ssam_fan_set(d->ctrl, &value);
surface_fan_set_cur_state_return(t) ==
    /\ th[t].pc = "wait"
    /\ th[t].op = "set_cur_state"
    /\ \E res \in {0} \cup TransportErrors :
        last' = Remote(t, "-", "-", << >>, res, res, FALSE, 0)
    /\ th' = [th EXCEPT ![t] = IdleThread]
    /\ UNCHANGED << drv, sdev >>

\* surface_fan_get_cur_state: __le16 value = 0; submit __ssam_fan_get
surface_fan_get_cur_state(t) ==
    /\ th[t].pc = "idle"
    /\ \E d \in cdevs :
        \E c \in ReadCtrl(d) :
            th' = [th EXCEPT ![t] =
                     Waiting("platform", "get_cur_state", 0, c, << >>)]
    /\ UNCHANGED << drv, sdev >>
    /\ last' = NoCall

\* ... *state = le16_to_cpu(value); return res;
surface_fan_get_cur_state_return(t) ==
    /\ th[t].pc = "wait"
    /\ th[t].op = "get_cur_state"
    /\ \E res \in {0} \cup TransportErrors, v \in RpmValues :
        LET rsp == IF res = 0 THEN cpu_to_le16(v) ELSE << >>
            value == IF res = 0 THEN rsp ELSE cpu_to_le16(0)
        IN  last' = Remote(t, "-", "-", rsp, res, res, TRUE, le16_to_cpu(value))
    /\ th' = [th EXCEPT ![t] = IdleThread]
    /\ UNCHANGED << drv, sdev >>

\* surface_fan_get_max_state: *state = 7200; return 0;
surface_fan_get_max_state(t) ==
    /\ th[t].pc = "idle"
    /\ cdevs # {}
    /\ last' = Local("platform", "get_max_state", "-", "-", 0, 0, TRUE, FAN_MAX_STATE)
    /\ UNCHANGED << drv, sdev, th >>

\* surface_fan_hwmon_read of the platform driver
platform_surface_fan_hwmon_read(t) ==
    /\ th[t].pc = "idle"
    /\ \E d \in hdevs, call \in HwmonCalls :
        LET type == call[1]
            attr == call[2]
        IN
        IF type = "hwmon_fan" /\ attr = "hwmon_fan_input"
        THEN /\ \E c \in ReadCtrl(d) :
                  th' = [th EXCEPT ![t] =
                           Waiting("platform", "hwmon_read", 0, c, << >>)]
             /\ last' = NoCall
        ELSE /\ last' =
                  IF type = "hwmon_fan" /\ attr = "hwmon_fan_min"
                  THEN Local("platform", "hwmon_read", type, attr, 0, 0, TRUE, FAN_MIN)
                  ELSE IF type = "hwmon_fan" /\ attr = "hwmon_fan_max"
                  THEN Local("platform", "hwmon_read", type, attr, 0, 0, TRUE,
                             FAN_MAX_STATE)
                  ELSE Local("platform", "hwmon_read", type, attr, 0, -1, FALSE, 0)
             /\ UNCHANGED th
    /\ UNCHANGED << drv, sdev >>

\* ... res = __ssam_fan_get(...); if (res != 0) return -1; *val = ...; return 0;
platform_surface_fan_hwmon_read_return(t) ==
    /\ th[t].pc = "wait"
    /\ th[t].drv = "platform"
    /\ th[t].op = "hwmon_read"
    /\ \E res \in {0} \cup TransportErrors, v \in RpmValues :
        last' = IF res # 0
                THEN Remote(t, "hwmon_fan", "hwmon_fan_input", << >>, res, -1, FALSE, 0)
                ELSE Remote(t, "hwmon_fan", "hwmon_fan_input", cpu_to_le16(v), res, 0,
                            TRUE, le16_to_cpu(cpu_to_le16(v)))
    /\ th' = [th EXCEPT ![t] = IdleThread]
    /\ UNCHANGED << drv, sdev >>

\* surface_fan_hwmon_write of the platform driver: return 0;
surface_fan_hwmon_write(t) ==
    /\ th[t].pc = "idle"
    /\ \E d \in hdevs, call \in HwmonCalls, val \in WriteValues :
        LET type == call[1]
            attr == call[2]
        IN  last' = Local("platform", "hwmon_write", type, attr, val, 0, FALSE, 0)
    /\ UNCHANGED << drv, sdev, th >>

\* a request submitted through a controller pointer that is NULL or stale
\* dereferences it: besides returning anything, the call may die in the request
RequestOops(t) ==
    /\ th[t].pc = "wait"
    /\ th[t].ctrl # "ctrl"
    /\ last' = [NoCall EXCEPT !.drv = th[t].drv, !.op = "oops"]
    /\ th' = [th EXCEPT ![t] = IdleThread]
    /\ UNCHANGED << drv, sdev >>

\* ---- the SSAM client hwmon driver (drivers/hwmon/surface_fan.c) ----

\* surface_fan_probe: register the hwmon device, then set the drvdata
hwmon_surface_fan_probe ==
    /\ ~sdev.hdev
    /\ \E r \in {0} \cup RegErrors :
        sdev' = IF r = 0 THEN [hdev |-> TRUE, drvdata |-> TRUE] ELSE sdev
    /\ UNCHANGED << drv, th >>
    /\ last' = NoCall

\* surface_fan_hwmon_read of the hwmon driver
hwmon_surface_fan_hwmon_read(t) ==
    /\ th[t].pc = "idle"
    /\ sdev.hdev
    /\ \E call \in HwmonCalls :
        LET type == call[1]
            attr == call[2]
        IN
        IF type = "hwmon_fan" /\ attr = "hwmon_fan_input"
        THEN /\ th' = [th EXCEPT ![t] =
                         Waiting("hwmon", "hwmon_read", 0, "ctrl", << >>)]
             /\ last' = NoCall
        ELSE /\ last' =
                  IF type # "hwmon_fan"
                  THEN Local("hwmon", "hwmon_read", type, attr, 0, 0, FALSE, 0)
                  ELSE IF attr = "hwmon_fan_min"
                  THEN Local("hwmon", "hwmon_read", type, attr, 0, 0, TRUE,
                             SURFACE_FAN_MIN_SPEED)
                  ELSE IF attr = "hwmon_fan_max"
                  THEN Local("hwmon", "hwmon_read", type, attr, 0, 0, TRUE,
                             SURFACE_FAN_MAX_SPEED)
                  ELSE Local("hwmon", "hwmon_read", type, attr, 0, -1, FALSE, 0)
             /\ UNCHANGED th
    /\ UNCHANGED << drv, sdev >>

\* ... res = __ssam_fan_rpm_get(sdev, &value); if (res) return -EIO; *val = ...
hwmon_surface_fan_hwmon_read_return(t) ==
    /\ th[t].pc = "wait"
    /\ th[t].drv = "hwmon"
    /\ th[t].op = "hwmon_read"
    /\ \E res \in {0} \cup TransportErrors, v \in RpmValues :
        last' = IF res # 0
                THEN Remote(t, "hwmon_fan", "hwmon_fan_input", << >>, res, -EIO, FALSE, 0)
                ELSE Remote(t, "hwmon_fan", "hwmon_fan_input", cpu_to_le16(v), res, 0,
                            TRUE, le16_to_cpu(cpu_to_le16(v)))
    /\ th' = [th EXCEPT ![t] = IdleThread]
    /\ UNCHANGED << drv, sdev >>

\* ---- the claims ----

ReadOps == {"hwmon_read", "get_cur_state"}

\* C1: every cooling state above 65535 handed to surface_fan_set_cur_state is
\* transmitted saturated, as 65535 (bytes 0xFF 0xFF), never wrapped
C1_SaturatesAbove16Bit ==
    (last.op = "set_cur_state" /\ last.ctrl = "ctrl" /\ last.arg > 65535) =>
        last.sent = << 255, 255 >>

\* C2: for every state v in 0..65535, surface_fan_set_cur_state(v) issues exactly
\* one set-speed request whose little-endian payload decodes to v, not clamped
\* to the advisory bounds, and returns that request's result
C2_InRangeSetUnchanged ==
    (last.op = "set_cur_state" /\ last.arg \in 0..65535) =>
        /\ last.nreq = 1
        /\ Len(last.sent) = 2
        /\ le16_to_cpu(last.sent) = last.arg
        /\ last.ret = last.res

\* C2 witness: a state above the advisory maximum was set and the request succeeded
C2_Witness ==
    /\ last.op = "set_cur_state"
    /\ last.arg = 65535
    /\ last.arg > FAN_MAX_STATE
    /\ last.ctrl = "ctrl"
    /\ last.ret = 0

\* a bind attempt has returned and the driver core has not yet forgotten it
AttemptEnded == Len(trace) > 0 /\ lifecycle \in {"Bound", "Deferred", "Failed"}

\* C3 as stated: a bind attempt ends Deferred when the controller is not yet
\* enumerated, Failed with -ENODEV when the presence probe fails, and Bound
\* whenever the presence probe returns a valid reading
C3_ValidReadingBinds ==
    AttemptEnded =>
        /\ (trace[1] = -ENODEV => lifecycle = "Deferred")
        /\ (Len(trace) >= 2 /\ trace[2] # 0 => lifecycle = "Failed" /\ ret = -ENODEV)
        /\ (Len(trace) >= 2 /\ trace[2] = 0 => lifecycle = "Bound")
        /\ (lifecycle = "Bound" => Len(trace) >= 2 /\ trace[2] = 0)

\* C3 as amended: a bind attempt ends Deferred when the controller is not yet
\* enumerated, Failed with -ENODEV when the presence probe fails, and Bound
\* when the presence probe returns a valid reading and the allocation and the
\* two registrations after it succeed; when one of those fails the attempt
\* returns that step's error, -ENODEV turned into -EPROBE_DEFER, and ends
\* Deferred for -EPROBE_DEFER and Failed otherwise.  Bound is reached only
\* after a successful presence probe.
C3_BindOutcomes ==
    AttemptEnded =>
        /\ (trace[1] = -ENODEV => lifecycle = "Deferred" /\ ret = -EPROBE_DEFER)
        /\ (Len(trace) >= 2 /\ trace[2] # 0 => lifecycle = "Failed" /\ ret = -ENODEV)
        /\ (Len(trace) = 5 /\ (\A i \in 1..5 : trace[i] = 0) =>
                lifecycle = "Bound" /\ ret = 0)
        /\ (Len(trace) >= 3 /\ trace[Len(trace)] # 0 =>
                /\ ret = (IF trace[Len(trace)] = -ENODEV THEN -EPROBE_DEFER
                          ELSE trace[Len(trace)])
                /\ lifecycle = (IF ret = -EPROBE_DEFER THEN "Deferred" ELSE "Failed"))
        /\ (lifecycle = "Bound" => Len(trace) >= 2 /\ trace[2] = 0)
        /\ (ret = 0 <=> lifecycle = "Bound")

\* C3 witness: an attempt whose presence probe returned a reading ended Bound
C3_Witness ==
    /\ AttemptEnded
    /\ lifecycle = "Bound"
    /\ trace = << 0, 0, 0, 0, 0 >>

\* C4: once surface_fan_remove has run, every adapter operation that arrives
\* fails and issues no transport transaction
C4_RemovedRejectsAll ==
    (last.drv = "platform" /\ last.op \in ReadOps \cup {"set_cur_state"}
        /\ last.afterRemove) =>
        (last.ret # 0 /\ last.nreq = 0)

\* C5: the hwmon read path and the cooling get/set paths of a bound controller
\* are serialized: at most one transport transaction is outstanding
C5_OneOutstanding ==
    lifecycle = "Bound" =>
        Cardinality({t \in Threads : th[t].pc = "wait" /\ th[t].drv = "platform"}) <= 1

\* C6: a read whose get-speed transaction fails returns -EIO, in both hwmon
\* read entry points and in get_cur_state; a successful one returns 0 with the
\* device's value unclamped
C6_FailedReadIsEIO ==
    (last.op \in ReadOps /\ last.nreq = 1 /\ last.ctrl = "ctrl") =>
        /\ (last.res # 0 => last.ret = -EIO)
        /\ (last.res = 0 =>
                last.ret = 0 /\ last.written /\ last.val = le16_to_cpu(last.resp))

\* C7: a write through the hwmon adapter is rejected, not reported as success,
\* and issues no transport transaction
C7_HwmonWriteRejected ==
    last.op = "hwmon_write" => (last.ret # 0 /\ last.nreq = 0)

\* C8: a cooling device is registered exactly while the controller is Bound;
\* attempts that end Deferred or Failed leave none, so there is never more
\* than one
C8_CdevIffBound ==
    /\ Cardinality(cdevs) <= 1
    /\ (lifecycle \in {"Unbound", "Deferred", "Failed", "Removed"} => cdevs = {})
    /\ (lifecycle = "Bound" => Cardinality(cdevs) = 1)

\* C9: no callback of the platform driver submits a request through an unset
\* controller handle: data->ctrl is assigned before the adapters are published
C9_CtrlSetBeforeCallbacks ==
    \A t \in Threads :
        (th[t].pc = "wait" /\ th[t].drv = "platform") => th[t].ctrl = "ctrl"

\* C10: a read entry point writes its output exactly when it returns 0
C10_OutputOnlyOnSuccess ==
    last.op \in ReadOps => (last.written <=> last.ret = 0)

Next ==
    \/ ProbeEnter
    \/ ProbeBind
    \/ ProbeFanGet
    \/ ProbeAlloc
    \/ ProbeCdevRegister
    \/ ProbeHwmonRegister
    \/ ProbeAssign
    \/ surface_fan_remove
    \/ DevresRelease
    \/ hwmon_surface_fan_probe
    \/ \E t \in CoolingThreads :
        \/ surface_fan_set_cur_state(t)
        \/ surface_fan_set_cur_state_return(t)
        \/ surface_fan_get_cur_state(t)
        \/ surface_fan_get_cur_state_return(t)
        \/ surface_fan_get_max_state(t)
    \/ \E t \in HwmonThreads :
        \/ platform_surface_fan_hwmon_read(t)
        \/ platform_surface_fan_hwmon_read_return(t)
        \/ surface_fan_hwmon_write(t)
        \/ hwmon_surface_fan_hwmon_read(t)
        \/ hwmon_surface_fan_hwmon_read_return(t)
    \/ \E t \in Threads : RequestOops(t)

Spec == Init /\ [][Next]_vars
====
